---- MODULE Spec2Model ----
(***************************************************************************)
(* Model of the fantasy-hockey redraft analysis: the ranking strategies    *)
(* (ranking.py), the client's draft/redraft computation (client.py) and    *)
(* the command line's redraft command (cli.py).                            *)
(*                                                                         *)
(* Points are fixed-point numbers in tenths of a fantasy point, so that    *)
(* the replacement levels 46.1 / 45.0 / 72.6 are the integers 461 / 450 /  *)
(* 726 and a player with 500 points has total_points = 5000.  A rational   *)
(* multiplier m is the pair <<num, den>>; a score scaled by it is compared *)
(* after multiplying both sides by den.                                    *)
(***************************************************************************)
EXTENDS Integers, Sequences, FiniteSets, TLC

\* ------------------------------------------------------------------------
\* Bounds of the model
\* ------------------------------------------------------------------------
MaxPlayers == 3      \* longest player list handed to rank
MaxTeams == 2        \* largest num_teams handed to calculate_replacement_levels
MaxPicks == 3        \* longest draft of a league
MaxRounds == 2       \* largest rounds argument of get_redraft

\* ------------------------------------------------------------------------
\* Values
\* ------------------------------------------------------------------------
\* The position labels the provider sends, as far as the model draws them.
PositionLabels == {"Center", "Defense", "Goalie", "GOALIE"}

\* total_points values (tenths): 480.0, 500.0 and 600.0 points.
PointValues == {4800, 5000, 6000}

\* str.lower() on the labels of the model.
Lower(s) ==
    CASE s = "Goalie" -> "goalie"
      [] s = "GOALIE" -> "goalie"
      [] s = "goalie" -> "goalie"
      [] s = "Defense" -> "defense"
      [] s = "DEFENSE" -> "defense"
      [] s = "defense" -> "defense"
      [] s = "Center" -> "center"
      [] s = "Left Wing" -> "left wing"
      [] s = "Right Wing" -> "right wing"
      [] s = "VOR" -> "vor"
      [] s = "Total" -> "total"
      [] s = "CSV" -> "csv"
      [] s = "dEfEnSe" -> "defense"
      [] s = "Defenseman" -> "defenseman"
      [] s = "Goalies" -> "goalies"
      [] s = "G" -> "g"
      [] s = "Utility" -> "utility"
      [] OTHER -> s

\* class Position(Enum)
Position == {"F", "D", "G"}

\* Position.from_espn_position
FromEspnPositionCaseSensitive(position) ==
    IF position = "goalie" THEN "G"
    ELSE IF position = "defense" THEN "D"
    ELSE "F"

from_espn_position(position) ==
    LET pos_lower == Lower(position)
    IN  IF pos_lower = "goalie" THEN "G"
        ELSE IF pos_lower = "defense" THEN "D"
        ELSE "F"

\* An optional argument: None, or the value wrapped in a one-element tuple.
None == <<>>
Some(x) == <<x>>

\* dict.get(key, default)
DictGet(d, key, default) == IF key \in DOMAIN d THEN d[key] ELSE default

\* models.Player (player_name plays no part in any computation and is left out)
Player(id, position, pts) ==
    [player_id |-> id, position |-> position, total_points |-> pts]

\* ------------------------------------------------------------------------
\* sorted(xs, key=..., reverse=True): a stable sort, largest key first.
\* keys[i] is the key of the i-th input element; the result is the sequence
\* of input indices in output order.
\* ------------------------------------------------------------------------
\* Insert the input index i into the already ordered indices idx: it goes
\* behind every element whose key is at least its own, so equal keys keep
\* their input order.
InsertUnstable(idx, i, keys) ==
    LET k == Cardinality({j \in 1..Len(idx) : keys[idx[j]] > keys[i]})
    IN  SubSeq(idx, 1, k) \o <<i>> \o SubSeq(idx, k + 1, Len(idx))

InsertUniqueKey(idx, i, keys) ==
    LET k == Cardinality({j \in 1..Len(idx) : keys[idx[j]] >= keys[i]})
    IN  IF \E j \in 1..Len(idx) : keys[idx[j]] = keys[i]
        THEN idx
        ELSE SubSeq(idx, 1, k) \o <<i>> \o SubSeq(idx, k + 1, Len(idx))

Insert(idx, i, keys) ==
    LET k == Cardinality({j \in 1..Len(idx) : keys[idx[j]] >= keys[i]})
    IN  SubSeq(idx, 1, k) \o <<i>> \o SubSeq(idx, k + 1, Len(idx))

RECURSIVE SortIndices(_, _)
SortIndices(keys, n) ==
    IF n = 0 THEN <<>> ELSE Insert(SortIndices(keys, n - 1), n, keys)

\* sorted(xs, key=lambda x: keys[x], reverse=True)
SortedReverse(xs, keys) ==
    LET idx == SortIndices(keys, Len(xs))
    IN  [j \in 1..Len(idx) |-> xs[idx[j]]]

\* sorted(xs, key=lambda x: keys[x]): ascending, stable
Sorted(xs, keys) == SortedReverse(xs, [i \in 1..Len(xs) |-> 0 - keys[i]])

\* ------------------------------------------------------------------------
\* Ranking strategies (ranking.py)
\* ------------------------------------------------------------------------
DEFAULT_GOALIE_MULTIPLIER == <<3, 4>>

\* ValueOverReplacementRanker.DEFAULT_REPLACEMENT_LEVELS (tenths)
DEFAULT_REPLACEMENT_LEVELS == [p \in Position |->
    CASE p = "F" -> 461 [] p = "D" -> 450 [] p = "G" -> 726]

\* A strategy object: its class and the attributes __init__ sets.
TotalPointsRanker ==
    [kind |-> "total", goalie_multiplier |-> DEFAULT_GOALIE_MULTIPLIER,
     replacement_levels |-> DEFAULT_REPLACEMENT_LEVELS]

PositionAdjustedRanker(goalie_multiplier) ==
    [kind |-> "adjusted", goalie_multiplier |-> goalie_multiplier,
     replacement_levels |-> DEFAULT_REPLACEMENT_LEVELS]

ValueOverReplacementRanker(replacement_levels) ==
    [kind |-> "vor", goalie_multiplier |-> DEFAULT_GOALIE_MULTIPLIER,
     replacement_levels |-> replacement_levels]

\* PositionAdjustedRanker._adjusted_points, scaled by the multiplier's
\* denominator.
AdjustedPointsCaseSensitive(self, player) ==
    IF player.position = "goalie"
    THEN player.total_points * self.goalie_multiplier[1]
    ELSE player.total_points * self.goalie_multiplier[2]

_adjusted_points(self, player) ==
    IF Lower(player.position) = "goalie"
    THEN player.total_points * self.goalie_multiplier[1]
    ELSE player.total_points * self.goalie_multiplier[2]

\* ValueOverReplacementRanker._get_vor
GetVorNegated(self, player) ==
    LET position == from_espn_position(player.position)
        replacement == DictGet(self.replacement_levels, position, 0)
    IN  replacement - player.total_points

_get_vor(self, player) ==
    LET position == from_espn_position(player.position)
        replacement == DictGet(self.replacement_levels, position, 0)
    IN  player.total_points - replacement

\* The sort key of a strategy's rank.
Score(self, player) ==
    CASE self.kind = "total" -> player.total_points
      [] self.kind = "adjusted" -> _adjusted_points(self, player)
      [] self.kind = "vor" -> _get_vor(self, player)

\* RankingStrategy.rank of the three classes
rank(self, ps) ==
    SortedReverse(ps, [i \in 1..Len(ps) |-> Score(self, ps[i])])

\* ------------------------------------------------------------------------
\* ValueOverReplacementRanker.calculate_replacement_levels
\* ------------------------------------------------------------------------
\* The roster_spots used when the argument is None (ranking.py:194-198).
DEFAULT_ROSTER_SPOTS == [p \in Position |->
    CASE p = "F" -> 9 [] p = "D" -> 4 [] p = "G" -> 2]

\* [x for x in xs if keep[x]], by input index
RECURSIVE FilterIndices(_, _)
FilterIndices(keep, n) ==
    IF n = 0 THEN <<>>
    ELSE IF keep[n] THEN Append(FilterIndices(keep, n - 1), n)
    ELSE FilterIndices(keep, n - 1)

\* by_position[pos] after the grouping loop and the sort by points
ByPosition(ps, pos) ==
    LET keep == [i \in 1..Len(ps) |-> from_espn_position(ps[i].position) = pos]
        idx == FilterIndices(keep, Len(ps))
        grp == [j \in 1..Len(idx) |-> ps[idx[j]]]
    IN  SortedReverse(grp, [j \in 1..Len(grp) |-> grp[j].total_points])

\* The body of the loop over by_position.items(): the level of one position,
\* or an IndexError when a list is indexed outside its range (pos_players[i]
\* with i >= 0 is in range iff i < len, pos_players[-1] iff the list is
\* non-empty).
ReplacementLevelOffByOne(pos_players, starters_needed) ==
    IF Len(pos_players) >= starters_needed
    THEN IF starters_needed < Len(pos_players)
         THEN [raises |-> FALSE,
               level |-> pos_players[starters_needed + 1].total_points]
         ELSE [raises |-> TRUE, level |-> 0]
    ELSE IF Len(pos_players) > 0
    THEN [raises |-> FALSE, level |-> pos_players[Len(pos_players)].total_points]
    ELSE [raises |-> FALSE, level |-> 0]

ReplacementLevel(pos_players, starters_needed) ==
    IF Len(pos_players) > starters_needed
    THEN IF starters_needed < Len(pos_players)
         THEN [raises |-> FALSE,
               level |-> pos_players[starters_needed + 1].total_points]
         ELSE [raises |-> TRUE, level |-> 0]
    ELSE IF Len(pos_players) > 0
    THEN [raises |-> FALSE, level |-> pos_players[Len(pos_players)].total_points]
    ELSE [raises |-> FALSE, level |-> 0]

\* calculate_replacement_levels(players, num_teams, roster_spots): whether it
\* raises, and the dict it returns.
calculate_replacement_levels(ps, n_teams, spots_arg) ==
    LET spots == IF spots_arg = None THEN DEFAULT_ROSTER_SPOTS ELSE spots_arg[1]
        one(pos) == ReplacementLevel(ByPosition(ps, pos),
                                     n_teams * DictGet(spots, pos, 0))
    IN  [raises |-> \E pos \in Position : one(pos).raises,
         levels |-> [pos \in Position |-> one(pos).level]]

\* ------------------------------------------------------------------------
\* The ranking strategies applied to bounded inputs
\* ------------------------------------------------------------------------
VARIABLES
    players,       \* the list handed to rank / calculate_replacement_levels
    strategy,      \* the strategy object in use
    ranked,        \* what rank returned last
    before,        \* what rank returned on the list before a player's points rose
    raised,        \* player_id of the player whose points rose (0: none)
    calc,          \* None, or the arguments and result of calculate_replacement_levels
    rpc            \* "input", "ranked", "raised" or "levels"

rankVars == <<players, strategy, ranked, before, raised, calc, rpc>>

\* ------------------------------------------------------------------------
\* The league as the provider returns it (espn_api League)
\* ------------------------------------------------------------------------
\* d[key] = value
DictSet(d, key, value) ==
    [x \in DOMAIN d \cup {key} |-> IF x = key THEN value ELSE d[x]]

\* d.update(e)
DictUpdate(d, e) ==
    [x \in DOMAIN d \cup DOMAIN e |-> IF x \in DOMAIN e THEN e[x] ELSE d[x]]

TeamIds == {1, 2}

TeamName(t) == IF t = 1 THEN "Aces" ELSE "Blades"

\* The player of the i-th pick; ids are no pick numbers and no list indices.
PlayerIdOfPick(i) == 100 + i

\* What the box scores say about a drafted player: the label and the points
\* of the player's lineup entry, or no entry at all.
BoxProfiles ==
    { [in_box |-> TRUE, position |-> "Center", points |-> 5000],
      [in_box |-> TRUE, position |-> "Defense", points |-> 4800],
      [in_box |-> TRUE, position |-> "Goalie", points |-> 6000],
      [in_box |-> TRUE, position |-> "Center", points |-> 0],
      [in_box |-> FALSE, position |-> "Left Wing", points |-> 0] }

\* A league whose draft has n picks: picks alternate between the teams, a
\* round is one pick per team; every drafted player is on the roster of the
\* team that drafted them; one matchup period, whose lineups hold the players
\* with a box-score entry.
League(n, prof) ==
    LET nt == Cardinality(TeamIds)
        team(i) == ((i - 1) % nt) + 1
        inBox == FilterIndices([i \in 1..n |-> prof[i].in_box], n)
        rosterOf(t) == FilterIndices([i \in 1..n |-> team(i) = t], n)
    IN  [draft |-> [i \in 1..n |->
                      [playerId |-> PlayerIdOfPick(i),
                       round_num |-> ((i - 1) \div nt) + 1,
                       round_pick |-> team(i),
                       team_id |-> team(i)]],
         teams |-> [t \in 1..nt |->
                      [team_id |-> t, team_name |-> TeamName(t),
                       standing |-> nt + 1 - t,
                       roster |-> [j \in 1..Len(rosterOf(t)) |->
                                     [playerId |-> PlayerIdOfPick(rosterOf(t)[j]),
                                      position |-> prof[rosterOf(t)[j]].position]]]],
         box_scores |-> << [j \in 1..Len(inBox) |->
                              [playerId |-> PlayerIdOfPick(inBox[j]),
                               points |-> prof[inBox[j]].points,
                               position |-> prof[inBox[j]].position]] >>]

\* The same league before its draft was held: teams, rosters and box scores
\* as they are, the draft history empty.
NoDraft(lg) == [lg EXCEPT !.draft = <<>>]

\* ------------------------------------------------------------------------
\* FantasyHockeyClient (client.py).  self is the record of the two caches,
\* each None or Some(dict); every method returns self as it leaves it.
\* ------------------------------------------------------------------------
NewClient == [points |-> None, positions |-> None]

\* All lineup entries in the order the loops of _get_player_points visit them
RECURSIVE LineupEntries(_, _)
LineupEntries(box_scores, current_period) ==
    IF current_period = 0 THEN <<>>
    ELSE LineupEntries(box_scores, current_period - 1) \o box_scores[current_period]

\* player_points after the first n entries
RECURSIVE PointsOfEntries(_, _)
PointsOfEntries(entries, n) ==
    IF n = 0 THEN <<>>
    ELSE LET d == PointsOfEntries(entries, n - 1)
             e == entries[n]
         IN  IF e.points # 0
             THEN DictSet(d, e.playerId, DictGet(d, e.playerId, 0) + e.points)
             ELSE d

\* player_positions after the first n entries
RECURSIVE PositionsOfEntries(_, _)
PositionsOfEntries(entries, n) ==
    IF n = 0 THEN <<>>
    ELSE LET d == PositionsOfEntries(entries, n - 1)
             e == entries[n]
         IN  IF e.playerId \notin DOMAIN d
             THEN DictSet(d, e.playerId, e.position)
             ELSE d

\* FantasyHockeyClient._get_player_points
_get_player_points(self, lg) ==
    IF self.points # None THEN self
    ELSE LET entries == LineupEntries(lg.box_scores, Len(lg.box_scores))
             player_points == PointsOfEntries(entries, Len(entries))
             player_positions == PositionsOfEntries(entries, Len(entries))
         IN  [points |-> Some(player_points),
              positions |-> IF self.positions = None
                            THEN Some(player_positions)
                            ELSE Some(DictUpdate(self.positions[1], player_positions))]

\* positions after the roster loops over the first n teams
RECURSIVE RosterPositions(_, _)
RosterPositions(teams, n) ==
    IF n = 0 THEN <<>>
    ELSE LET roster == teams[n].roster
         IN  DictUpdate(RosterPositions(teams, n - 1),
                        [id \in {roster[j].playerId : j \in 1..Len(roster)} |->
                           LET last == CHOOSE j \in 1..Len(roster) :
                                   /\ roster[j].playerId = id
                                   /\ \A k \in j + 1..Len(roster) : roster[k].playerId # id
                           IN  roster[last].position])

\* FantasyHockeyClient._get_player_positions
_get_player_positions(self, lg) ==
    IF self.positions # None THEN self
    ELSE _get_player_points(
             [self EXCEPT !.positions = Some(RosterPositions(lg.teams, Len(lg.teams)))],
             lg)

\* FantasyHockeyClient.get_draft_order: self afterwards and the picks
GetDraftOrderZeroBased(self, lg) ==
    LET team_lookup == [t \in {lg.teams[k].team_id : k \in 1..Len(lg.teams)} |->
                          LET k == CHOOSE k \in 1..Len(lg.teams) : lg.teams[k].team_id = t
                          IN  lg.teams[k].team_name]
        self1 == _get_player_points(self, lg)
        player_points == self1.points[1]
        self2 == _get_player_positions(self1, lg)
        player_positions == self2.positions[1]
    IN  [self |-> self2,
         picks |-> [i \in 1..Len(lg.draft) |->
                      LET pick == lg.draft[i]
                      IN  [round_num |-> pick.round_num,
                           pick_num |-> pick.round_pick,
                           overall_pick |-> i - 1,
                           team_id |-> pick.team_id,
                           team_name |-> DictGet(team_lookup, pick.team_id, "Unknown"),
                           player |-> Player(pick.playerId,
                                             DictGet(player_positions, pick.playerId, ""),
                                             DictGet(player_points, pick.playerId, 0))]]]

get_draft_order(self, lg) ==
    LET team_lookup == [t \in {lg.teams[k].team_id : k \in 1..Len(lg.teams)} |->
                          LET k == CHOOSE k \in 1..Len(lg.teams) : lg.teams[k].team_id = t
                          IN  lg.teams[k].team_name]
        self1 == _get_player_points(self, lg)
        player_points == self1.points[1]
        self2 == _get_player_positions(self1, lg)
        player_positions == self2.positions[1]
    IN  [self |-> self2,
         picks |-> [i \in 1..Len(lg.draft) |->
                      LET pick == lg.draft[i]
                      IN  [round_num |-> pick.round_num,
                           pick_num |-> pick.round_pick,
                           overall_pick |-> i,
                           team_id |-> pick.team_id,
                           team_name |-> DictGet(team_lookup, pick.team_id, "Unknown"),
                           player |-> Player(pick.playerId,
                                             DictGet(player_positions, pick.playerId, ""),
                                             DictGet(player_points, pick.playerId, 0))]]]

\* redraft_position = {p.player_id: i + 1 for i, p in enumerate(ranked_players)}
RedraftPositionZeroBased(ranked_players) ==
    [id \in {ranked_players[i].player_id : i \in 1..Len(ranked_players)} |->
        LET last == CHOOSE i \in 1..Len(ranked_players) :
                /\ ranked_players[i].player_id = id
                /\ \A k \in i + 1..Len(ranked_players) : ranked_players[k].player_id # id
        IN  last - 1]

RedraftPosition(ranked_players) ==
    [id \in {ranked_players[i].player_id : i \in 1..Len(ranked_players)} |->
        CHOOSE i \in 1..Len(ranked_players) :
            /\ ranked_players[i].player_id = id
            /\ \A k \in i + 1..Len(ranked_players) : ranked_players[k].player_id # id]

\* display_picks: all picks, or those of the first rounds
DisplayPicksExclusive(all_picks, rounds) ==
    IF rounds = None THEN all_picks
    ELSE LET idx == FilterIndices([i \in 1..Len(all_picks) |->
                                      all_picks[i].round_num < rounds[1]],
                                  Len(all_picks))
         IN  [j \in 1..Len(idx) |-> all_picks[idx[j]]]

DisplayPicks(all_picks, rounds) ==
    IF rounds = None THEN all_picks
    ELSE LET idx == FilterIndices([i \in 1..Len(all_picks) |->
                                      all_picks[i].round_num <= rounds[1]],
                                  Len(all_picks))
         IN  [j \in 1..Len(idx) |-> all_picks[idx[j]]]

\* FantasyHockeyClient.get_redraft: self afterwards, whether the lookup of a
\* pick's player raised KeyError, and the RedraftResult.
GetRedraftNeedsPicks(self, lg, strategy_opt, rounds) ==
    LET strat == IF strategy_opt = None
                 THEN PositionAdjustedRanker(DEFAULT_GOALIE_MULTIPLIER)
                 ELSE strategy_opt[1]
        order == get_draft_order(self, lg)
        all_picks == order.picks
        all_players == [i \in 1..Len(all_picks) |-> all_picks[i].player]
        ranked_players == rank(strat, all_players)
        redraft_position == RedraftPosition(ranked_players)
        display_picks == DisplayPicks(all_picks, rounds)
        missing == \/ ranked_players = <<>>
                   \/ \E i \in 1..Len(display_picks) :
                          display_picks[i].player.player_id \notin DOMAIN redraft_position
    IN  [self |-> order.self,
         raises |-> missing,
         result |->
           IF missing THEN [comparisons |-> <<>>, ranked_players |-> <<>>]
           ELSE [comparisons |-> [i \in 1..Len(display_picks) |->
                    [actual_pick |-> display_picks[i].overall_pick,
                     redraft_pick |-> redraft_position[display_picks[i].player.player_id],
                     player |-> display_picks[i].player,
                     team_name |-> display_picks[i].team_name]],
                 ranked_players |-> ranked_players]]

GetRedraftRankingDisplayed(self, lg, strategy_opt, rounds) ==
    LET strat == IF strategy_opt = None
                 THEN PositionAdjustedRanker(DEFAULT_GOALIE_MULTIPLIER)
                 ELSE strategy_opt[1]
        order == get_draft_order(self, lg)
        all_picks == order.picks
        display_picks == DisplayPicks(all_picks, rounds)
        all_players == [i \in 1..Len(display_picks) |-> display_picks[i].player]
        ranked_players == rank(strat, all_players)
        redraft_position == RedraftPosition(ranked_players)
        missing == \E i \in 1..Len(display_picks) :
                       display_picks[i].player.player_id \notin DOMAIN redraft_position
    IN  [self |-> order.self,
         raises |-> missing,
         result |->
           IF missing THEN [comparisons |-> <<>>, ranked_players |-> <<>>]
           ELSE [comparisons |-> [i \in 1..Len(display_picks) |->
                    [actual_pick |-> display_picks[i].overall_pick,
                     redraft_pick |-> redraft_position[display_picks[i].player.player_id],
                     player |-> display_picks[i].player,
                     team_name |-> display_picks[i].team_name]],
                 ranked_players |-> ranked_players]]

get_redraft(self, lg, strategy_opt, rounds) ==
    LET strat == IF strategy_opt = None
                 THEN PositionAdjustedRanker(DEFAULT_GOALIE_MULTIPLIER)
                 ELSE strategy_opt[1]
        order == get_draft_order(self, lg)
        all_picks == order.picks
        all_players == [i \in 1..Len(all_picks) |-> all_picks[i].player]
        ranked_players == rank(strat, all_players)
        redraft_position == RedraftPosition(ranked_players)
        display_picks == DisplayPicks(all_picks, rounds)
        missing == \E i \in 1..Len(display_picks) :
                       display_picks[i].player.player_id \notin DOMAIN redraft_position
    IN  [self |-> order.self,
         raises |-> missing,
         result |->
           IF missing THEN [comparisons |-> <<>>, ranked_players |-> <<>>]
           ELSE [comparisons |-> [i \in 1..Len(display_picks) |->
                    [actual_pick |-> display_picks[i].overall_pick,
                     redraft_pick |-> redraft_position[display_picks[i].player.player_id],
                     player |-> display_picks[i].player,
                     team_name |-> display_picks[i].team_name]],
                 ranked_players |-> ranked_players]]

\* ------------------------------------------------------------------------
\* The summary of print_redraft (cli.py:115-137)
\* ------------------------------------------------------------------------
\* RedraftComparison.pick_difference
pick_difference(c) == c.actual_pick - c.redraft_pick

\* the [:5] of the two sorted lists
SummaryLimit == 5

\* xs[:n]
Take(xs, n) == SubSeq(xs, 1, IF Len(xs) < n THEN Len(xs) ELSE n)

\* [x for x in xs if keep[x]]
Filter(xs, keep) ==
    LET idx == FilterIndices(keep, Len(xs))
    IN  [j \in 1..Len(idx) |-> xs[idx[j]]]

\* The comparisons printed under "BIGGEST STEALS" and under "BIGGEST BUSTS",
\* in the order printed.
PrintedSummary(comparisons) ==
    LET diffs(xs) == [i \in 1..Len(xs) |-> pick_difference(xs[i])]
        biggest_steals == Take(SortedReverse(comparisons, diffs(comparisons)),
                               SummaryLimit)
        biggest_busts == Take(Sorted(comparisons, diffs(comparisons)), SummaryLimit)
    IN  [steals |-> Filter(biggest_steals,
                           [i \in 1..Len(biggest_steals) |->
                              pick_difference(biggest_steals[i]) > 0]),
         busts |-> Filter(biggest_busts,
                          [i \in 1..Len(biggest_busts) |->
                             pick_difference(biggest_busts[i]) < 0])]

\* ------------------------------------------------------------------------
\* A program using one client: it asks for redrafts with one strategy and
\* several round limits, and derives the summary of a result.
\* ------------------------------------------------------------------------
VARIABLES
    league,                    \* the league the provider returns
    _player_points_cache,      \* None or Some(dict player_id -> points)
    _player_positions_cache,   \* None or Some(dict player_id -> label)
    strategy_arg,              \* the strategy argument of get_redraft
    redrafts,                  \* rounds argument -> the RedraftResult returned
    redraft_raised,            \* TRUE once a get_redraft call raised
    summary                    \* None or Some([rounds, steals, busts])

clientVars == <<league, _player_points_cache, _player_positions_cache,
                strategy_arg, redrafts, redraft_raised, summary>>

Self == [points |-> _player_points_cache, positions |-> _player_positions_cache]

\* ------------------------------------------------------------------------
\* One run of the command line (cli.py main)
\* ------------------------------------------------------------------------
VARIABLES
    argv,            \* sys.argv: the program name and the argument tokens
    env_ok,          \* the environment holds ESPN_LEAGUE_ID, ESPN_SWID, ESPN_S2
    pc,              \* "start", "parse", "dispatch", "done" ("idle": no run)
    command,         \* main's local variables after parsing
    rounds,
    fmt,
    strategy_name,
    exit_code,       \* None while running, Some(main's return value) after
    stderr,          \* which message went to stderr ("" for none)
    stdout,          \* what was printed: [kind, rows]
    calls            \* how often get_redraft and rank were called

cliVars == <<argv, env_ok, pc, command, rounds, fmt, strategy_name, exit_code,
             stderr, stdout, calls>>

\* ------------------------------------------------------------------------
\* Position.from_espn_position applied to the labels of a player pool, one
\* after the other (the grouping loop of calculate_replacement_levels)
\* ------------------------------------------------------------------------
VARIABLES
    labels,          \* the raw position labels of the pool
    classified       \* the Position of each label classified so far

posVars == <<labels, classified>>

\* ------------------------------------------------------------------------
\* A fresh client whose three data methods are called in some order
\* ------------------------------------------------------------------------
VARIABLES
    called,               \* the methods called so far, in call order
    returned_positions,   \* None or Some(what _get_player_positions returned)
    returned_picks        \* None or Some(what get_draft_order returned)

callVars == <<called, returned_positions, returned_picks>>

\* ---- the ranking strategies applied to bounded inputs ----
\* A player list of the model: player i of the list has player_id i.
PlayerList(n, lab, pts) == [i \in 1..n |-> Player(i, lab[i], pts[i])]

\* The strategy objects get_strategy can build, and a second multiplier.
Strategies ==
    { TotalPointsRanker,
      PositionAdjustedRanker(DEFAULT_GOALIE_MULTIPLIER),
      ValueOverReplacementRanker(DEFAULT_REPLACEMENT_LEVELS) }

\* roster_spots arguments: the default, one starter per position, and a dict
\* without a Goalie entry.
RosterSpotsArgs ==
    { None,
      Some([p \in Position |-> 1]),
      Some([p \in {"F", "D"} |-> IF p = "F" THEN 2 ELSE 1]) }

RankInit ==
    /\ \E n \in 0..MaxPlayers :
         \E lab \in [1..n -> PositionLabels], pts \in [1..n -> PointValues] :
             players = PlayerList(n, lab, pts)
    /\ strategy \in Strategies
    /\ ranked = <<>>
    /\ before = <<>>
    /\ raised = 0
    /\ calc = None
    /\ rpc = "input"

\* ranked = strategy.rank(players)
Rank ==
    /\ rpc \in {"input", "levels"}
    /\ ranked' = rank(strategy, players)
    /\ rpc' = "ranked"
    /\ UNCHANGED <<players, strategy, before, raised, calc>>
    /\ UNCHANGED <<clientVars, cliVars, posVars, callVars>>

\* One player's total_points rises, everything else stays; the list is ranked
\* again by the same strategy object.  (Not after replacement levels were
\* calculated from the list: they are the levels of the list as it was.)
RaisePoints ==
    /\ rpc = "ranked"
    /\ calc = None
    /\ \E i \in 1..Len(players), pts \in PointValues :
         /\ pts > players[i].total_points
         /\ players' = [players EXCEPT ![i].total_points = pts]
         /\ raised' = players[i].player_id
    /\ before' = ranked
    /\ ranked' = rank(strategy, players')
    /\ rpc' = "raised"
    /\ UNCHANGED <<strategy, calc>>
    /\ UNCHANGED <<clientVars, cliVars, posVars, callVars>>

\* levels = ValueOverReplacementRanker.calculate_replacement_levels(players,
\* num_teams, roster_spots); strategy = ValueOverReplacementRanker(levels)
CalculateReplacementLevels ==
    /\ rpc = "input"
    /\ strategy.kind = "vor"
    /\ \E n_teams \in 1..MaxTeams, spots \in RosterSpotsArgs :
         LET res == calculate_replacement_levels(players, n_teams, spots)
         IN  /\ calc' = Some([num_teams |-> n_teams, roster_spots |-> spots,
                              result |-> res])
             /\ strategy' = IF res.raises THEN strategy
                            ELSE ValueOverReplacementRanker(res.levels)
    /\ rpc' = "levels"
    /\ UNCHANGED <<players, ranked, before, raised>>
    /\ UNCHANGED <<clientVars, cliVars, posVars, callVars>>

RankNext == Rank \/ RaisePoints \/ CalculateReplacementLevels

\* ---- the program using one client ----
\* rounds arguments: None, or a number of rounds
RoundsArgs == {None} \cup {Some(r) : r \in 1..MaxRounds}

StrategyArgs ==
    { None, Some(TotalPointsRanker),
      Some(ValueOverReplacementRanker(DEFAULT_REPLACEMENT_LEVELS)) }

ClientInit ==
    /\ \/ \E n \in 0..MaxPicks : \E prof \in [1..n -> BoxProfiles] :
            league = League(n, prof)
       \/ \E prof \in [1..1 -> BoxProfiles] : league = NoDraft(League(1, prof))
    /\ _player_points_cache = None
    /\ _player_positions_cache = None
    /\ strategy_arg \in StrategyArgs
    /\ redrafts = <<>>
    /\ redraft_raised = FALSE
    /\ summary = None

\* result = client.get_redraft(strategy=strategy_arg, rounds=limit)
GetRedraft ==
    \E limit \in RoundsArgs \ DOMAIN redrafts :
        LET r == get_redraft(Self, league, strategy_arg, limit)
        IN  /\ _player_points_cache' = r.self.points
            /\ _player_positions_cache' = r.self.positions
            /\ redraft_raised' = (redraft_raised \/ r.raises)
            /\ redrafts' = IF r.raises THEN redrafts
                           ELSE DictSet(redrafts, limit, r.result)
            /\ \/ r.raises
               \/ limit \in DOMAIN redrafts'
            /\ UNCHANGED <<league, strategy_arg, summary>>
            /\ UNCHANGED <<rankVars, cliVars, posVars, callVars>>

\* The summary lines of print_redraft for a result
PrintSummary ==
    /\ summary = None
    /\ \E limit \in DOMAIN redrafts :
         LET printed == PrintedSummary(redrafts[limit].comparisons)
         IN  summary' = Some([rounds |-> limit, steals |-> printed.steals,
                              busts |-> printed.busts])
    /\ UNCHANGED <<league, _player_points_cache, _player_positions_cache,
                   strategy_arg, redrafts, redraft_raised>>
    /\ UNCHANGED <<rankVars, cliVars, posVars, callVars>>

ClientNext == GetRedraft \/ PrintSummary

\* ---- the command line ----
DEFAULT_ROUNDS == 1

\* An argument token: <<text>>, or <<"--name=", value>> for the token
\* --name=value.
Plain(text) == <<text>>
WithValue(prefix, value) == <<prefix, value>>

\* The text of a token as far as it is compared with a word: a token
\* --name=value equals no word the program compares with.
TokenText(tok) == tok[1]

\* arg.startswith(prefix) for prefix "--name="
StartsWith(tok, prefix) == Len(tok) = 2 /\ tok[1] = prefix

\* arg.split("=")[1]
AfterEquals(tok) == tok[2]

\* int(text): Some(n), or None for ValueError
IntOf(text) ==
    CASE text = "0" -> Some(0)
      [] text = "1" -> Some(1)
      [] text = "2" -> Some(2)
      [] text = "3" -> Some(3)
      [] OTHER -> None

\* The first index (1-based) at which a parse loop returns, 0 if it runs to
\* the end: arg == flag with a token behind it, or arg.startswith(flag + "=")
RECURSIVE FirstOption(_, _, _, _)
FirstOption(args, flag, prefix, i) ==
    IF i > Len(args) THEN 0
    ELSE IF Len(args[i]) = 1 /\ TokenText(args[i]) = flag /\ i < Len(args) THEN i
    ELSE IF StartsWith(args[i], prefix) THEN i
    ELSE FirstOption(args, flag, prefix, i + 1)

\* The value text the loop returns on at index i
OptionValue(args, i) ==
    IF Len(args[i]) = 1 THEN TokenText(args[i + 1]) ELSE AfterEquals(args[i])

\* parse_rounds_arg
parse_rounds_arg(args) ==
    LET i == FirstOption(args, "--rounds", "--rounds=", 1)
    IN  IF i = 0 THEN None ELSE IntOf(OptionValue(args, i))

\* parse_format_arg
parse_format_arg(args) ==
    LET i == FirstOption(args, "--format", "--format=", 1)
    IN  IF i = 0 THEN "table" ELSE Lower(OptionValue(args, i))

\* parse_strategy_arg
parse_strategy_arg(args) ==
    LET i == FirstOption(args, "--strategy", "--strategy=", 1)
    IN  IF i = 0 THEN "vor" ELSE Lower(OptionValue(args, i))

\* get_strategy: Some(strategy object), or None
GetStrategyDefaulting(name) ==
    CASE name = "total" -> Some(TotalPointsRanker)
      [] name = "adjusted" -> Some(PositionAdjustedRanker(DEFAULT_GOALIE_MULTIPLIER))
      [] OTHER -> Some(ValueOverReplacementRanker(DEFAULT_REPLACEMENT_LEVELS))

get_strategy(name) ==
    CASE name = "vor" -> Some(ValueOverReplacementRanker(DEFAULT_REPLACEMENT_LEVELS))
      [] name = "total" -> Some(TotalPointsRanker)
      [] name = "adjusted" -> Some(PositionAdjustedRanker(DEFAULT_GOALIE_MULTIPLIER))
      [] OTHER -> None

\* position[0].upper() for the labels of the model
FirstUpper(position) ==
    CASE position = "Utility" -> "U"
      [] position = "bench" -> "B"
      [] OTHER -> "?"

\* get_position_abbrev
get_position_abbrev(position) ==
    IF position = "" THEN "?"
    ELSE LET pos_lower == Lower(position)
         IN  IF pos_lower = "goalie" THEN "G"
             ELSE IF pos_lower = "defense" THEN "D"
             ELSE IF pos_lower \in {"center", "left wing", "right wing"} THEN "F"
             ELSE FirstUpper(position)

\* The rows of print_redraft_csv (and of the table of print_redraft): row i
\* sets the i-th comparison beside the i-th ranked player; raises is TRUE
\* when ranked_players[i] is out of range.
RedraftRows(result) ==
    LET comparisons == result.comparisons
        ranked_players == result.ranked_players
    IN  [raises |-> Len(comparisons) > Len(ranked_players),
         rows |-> [i \in 1..(IF Len(comparisons) > Len(ranked_players)
                             THEN Len(ranked_players) ELSE Len(comparisons)) |->
                     [pick |-> i,
                      actual |-> comparisons[i].player.player_id,
                      actual_pos |-> get_position_abbrev(comparisons[i].player.position),
                      actual_pts |-> comparisons[i].player.total_points,
                      team |-> comparisons[i].team_name,
                      ideal |-> ranked_players[i].player_id,
                      ideal_pos |-> get_position_abbrev(ranked_players[i].position),
                      ideal_pts |-> ranked_players[i].total_points,
                      diff |-> pick_difference(comparisons[i])]]]

\* The argument vectors of the model
CommandTokens ==
    { <<>>, <<Plain("redraft")>>, <<Plain("draft")>>, <<Plain("standings")>>,
      <<Plain("bogus")>> }

StrategyTokens ==
    { <<>>, <<Plain("--strategy"), Plain("total")>>,
      <<WithValue("--strategy=", "adjusted")>>,
      <<Plain("--strategy"), Plain("VOR")>>,
      <<Plain("--strategy"), Plain("bogus")>>,
      <<WithValue("--strategy=", "")>> }

RoundsTokens ==
    { <<>>, <<Plain("--rounds"), Plain("2")>>, <<WithValue("--rounds=", "x")>> }

FormatTokens == { <<>>, <<Plain("--format"), Plain("CSV")>> }

\* The box-score profiles of the leagues a run of the command line meets
CliProfiles ==
    { [in_box |-> TRUE, position |-> "Center", points |-> 5000],
      [in_box |-> TRUE, position |-> "Goalie", points |-> 6000],
      [in_box |-> FALSE, position |-> "Left Wing", points |-> 0] }

CliInit ==
    /\ \E c \in CommandTokens, st \in StrategyTokens, r \in RoundsTokens,
          f \in FormatTokens :
         argv = <<Plain("fantasy-hockey")>> \o c \o st \o r \o f
    /\ env_ok \in BOOLEAN
    /\ pc = "start"
    /\ command = ""
    /\ rounds = None
    /\ fmt = ""
    /\ strategy_name = ""
    /\ exit_code = None
    /\ stderr = ""
    /\ stdout = [kind |-> "", rows |-> <<>>]
    /\ calls = [get_redraft |-> 0, rank |-> 0]

Exit(code, message) ==
    /\ pc' = "done"
    /\ exit_code' = Some(code)
    /\ stderr' = message

\* client = FantasyHockeyClient(): load_config raises KeyError when a
\* variable is missing, and main returns 1.
Construct ==
    /\ pc = "start"
    /\ IF env_ok
       THEN /\ pc' = "parse"
            /\ UNCHANGED <<exit_code, stderr>>
       ELSE Exit(1, "Error: Missing environment variable")
    /\ UNCHANGED <<argv, env_ok, command, rounds, fmt, strategy_name, stdout, calls>>
    /\ UNCHANGED <<rankVars, clientVars, posVars, callVars>>

\* command, rounds, fmt, strategy_name = ...
ParseArgs ==
    /\ pc = "parse"
    /\ command' = IF Len(argv) > 1 THEN TokenText(argv[2]) ELSE "redraft"
    /\ rounds' = parse_rounds_arg(argv)
    /\ fmt' = parse_format_arg(argv)
    /\ strategy_name' = parse_strategy_arg(argv)
    /\ pc' = "dispatch"
    /\ UNCHANGED <<argv, env_ok, exit_code, stderr, stdout, calls>>
    /\ UNCHANGED <<rankVars, clientVars, posVars, callVars>>

\* case "standings": print_standings(client)
Standings ==
    /\ pc = "dispatch"
    /\ command = "standings"
    /\ LET teams == league.teams
           standings == Sorted(teams, [k \in 1..Len(teams) |-> teams[k].standing])
       IN  stdout' = [kind |-> "standings",
                      rows |-> [k \in 1..Len(standings) |-> standings[k].team_id]]
    /\ Exit(0, "")
    /\ UNCHANGED <<argv, env_ok, command, rounds, fmt, strategy_name, calls>>
    /\ UNCHANGED <<rankVars, clientVars, posVars, callVars>>

\* case "draft": print_draft_order(client, rounds=rounds)
DraftOrder ==
    /\ pc = "dispatch"
    /\ command = "draft"
    /\ LET order == get_draft_order(Self, league)
           picks == DisplayPicks(order.picks, rounds)
       IN  /\ _player_points_cache' = order.self.points
           /\ _player_positions_cache' = order.self.positions
           /\ stdout' = [kind |-> IF picks = <<>> THEN "no draft data" ELSE "draft",
                         rows |-> [k \in 1..Len(picks) |->
                                     [pick |-> picks[k].overall_pick,
                                      player |-> picks[k].player.player_id,
                                      pos |-> get_position_abbrev(picks[k].player.position),
                                      pts |-> picks[k].player.total_points,
                                      team |-> picks[k].team_name]]]
    /\ Exit(0, "")
    /\ UNCHANGED <<argv, env_ok, command, rounds, fmt, strategy_name, calls>>
    /\ UNCHANGED <<rankVars, posVars, callVars, league, strategy_arg, redrafts,
                   redraft_raised, summary>>

\* case "redraft" with a strategy name get_strategy does not know
RedraftUnknownStrategy ==
    /\ pc = "dispatch"
    /\ command = "redraft"
    /\ get_strategy(strategy_name) = None
    /\ Exit(1, "Unknown strategy")
    /\ UNCHANGED <<argv, env_ok, command, rounds, fmt, strategy_name, stdout, calls>>
    /\ UNCHANGED <<rankVars, clientVars, posVars, callVars>>

\* rounds or DEFAULT_ROUNDS
RoundsOrDefault(r) == IF r = None \/ r = Some(0) THEN Some(DEFAULT_ROUNDS) ELSE r

\* case "redraft", fmt == "csv": print_redraft_csv
RedraftCsv ==
    /\ pc = "dispatch"
    /\ command = "redraft"
    /\ get_strategy(strategy_name) # None
    /\ fmt = "csv"
    /\ LET r == get_redraft(Self, league, get_strategy(strategy_name),
                            RoundsOrDefault(rounds))
           printed == RedraftRows(r.result)
       IN  /\ _player_points_cache' = r.self.points
           /\ _player_positions_cache' = r.self.positions
           /\ calls' = [get_redraft |-> calls.get_redraft + 1,
                        rank |-> calls.rank + 1]
           /\ IF r.raises
              THEN /\ stdout' = stdout
                   /\ Exit(1, "Error: Missing environment variable")
              ELSE IF printed.raises
              THEN /\ stdout' = [kind |-> "csv", rows |-> printed.rows]
                   /\ Exit(1, "Error: list index out of range")
              ELSE /\ stdout' = [kind |-> "csv", rows |-> printed.rows]
                   /\ Exit(0, "")
    /\ UNCHANGED <<argv, env_ok, command, rounds, fmt, strategy_name>>
    /\ UNCHANGED <<rankVars, posVars, callVars, league, strategy_arg, redrafts,
                   redraft_raised, summary>>

\* case "redraft", any other fmt: print_redraft.  After get_redraft it prints
\* the title and reads result.strategy_name, an attribute RedraftResult does
\* not have: AttributeError, caught by main, which returns 1.
RedraftTable ==
    /\ pc = "dispatch"
    /\ command = "redraft"
    /\ get_strategy(strategy_name) # None
    /\ fmt # "csv"
    /\ LET r == get_redraft(Self, league, get_strategy(strategy_name),
                            RoundsOrDefault(rounds))
       IN  /\ _player_points_cache' = r.self.points
           /\ _player_positions_cache' = r.self.positions
           /\ calls' = [get_redraft |-> calls.get_redraft + 1,
                        rank |-> calls.rank + 1]
           /\ IF r.raises
              THEN /\ stdout' = [kind |-> "loading", rows |-> <<>>]
                   /\ Exit(1, "Error: Missing environment variable")
              ELSE /\ stdout' = [kind |-> "table title", rows |-> <<>>]
                   /\ Exit(1, "Error: 'RedraftResult' object has no attribute 'strategy_name'")
    /\ UNCHANGED <<argv, env_ok, command, rounds, fmt, strategy_name>>
    /\ UNCHANGED <<rankVars, posVars, callVars, league, strategy_arg, redrafts,
                   redraft_raised, summary>>

\* case _: unknown command
UnknownCommand ==
    /\ pc = "dispatch"
    /\ command \notin {"standings", "draft", "redraft"}
    /\ Exit(1, "Unknown command")
    /\ UNCHANGED <<argv, env_ok, command, rounds, fmt, strategy_name, stdout, calls>>
    /\ UNCHANGED <<rankVars, clientVars, posVars, callVars>>

CliNext ==
    \/ Construct
    \/ ParseArgs
    \/ Standings
    \/ DraftOrder
    \/ RedraftUnknownStrategy
    \/ RedraftCsv
    \/ RedraftTable
    \/ UnknownCommand

\* ---- the classification of a pool's labels ----
\* Raw labels: the empty string, skater sub-positions, spellings of
\* "defense" and "goalie" in several cases, and labels that merely begin
\* like them.
RawLabels ==
    { "", "Center", "Left Wing", "Defense", "DEFENSE", "dEfEnSe", "Defenseman",
      "Goalie", "GOALIE", "goalie", "Goalies", "G" }

PosInit ==
    /\ \E n \in 0..MaxPlayers : labels \in [1..n -> RawLabels]
    /\ classified = <<>>

\* pos = Position.from_espn_position(player.position) for the next player
Classify ==
    /\ Len(classified) < Len(labels)
    /\ classified' = Append(classified,
                            from_espn_position(labels[Len(classified) + 1]))
    /\ UNCHANGED labels
    /\ UNCHANGED <<rankVars, clientVars, cliVars, callVars>>

PosNext == Classify

\* ---- the three data methods of a fresh client, each called once ----
CallsInit ==
    /\ \E n \in 0..MaxPicks : \E prof \in [1..n -> BoxProfiles] :
         league = League(n, prof)
    /\ _player_points_cache = None
    /\ _player_positions_cache = None
    /\ strategy_arg = None
    /\ redrafts = <<>>
    /\ redraft_raised = FALSE
    /\ summary = None
    /\ called = <<>>
    /\ returned_positions = None
    /\ returned_picks = None

NotYetCalled(method) == \A k \in 1..Len(called) : called[k] # method

\* client._get_player_points()
CallGetPlayerPoints ==
    /\ NotYetCalled("_get_player_points")
    /\ LET self1 == _get_player_points(Self, league)
       IN  /\ _player_points_cache' = self1.points
           /\ _player_positions_cache' = self1.positions
    /\ called' = Append(called, "_get_player_points")
    /\ UNCHANGED <<returned_positions, returned_picks>>
    /\ UNCHANGED <<rankVars, cliVars, posVars, league, strategy_arg, redrafts,
                   redraft_raised, summary>>

\* client._get_player_positions()
CallGetPlayerPositions ==
    /\ NotYetCalled("_get_player_positions")
    /\ LET self1 == _get_player_positions(Self, league)
       IN  /\ _player_points_cache' = self1.points
           /\ _player_positions_cache' = self1.positions
           /\ returned_positions' = Some(self1.positions[1])
    /\ called' = Append(called, "_get_player_positions")
    /\ UNCHANGED returned_picks
    /\ UNCHANGED <<rankVars, cliVars, posVars, league, strategy_arg, redrafts,
                   redraft_raised, summary>>

\* client.get_draft_order()
CallGetDraftOrder ==
    /\ NotYetCalled("get_draft_order")
    /\ LET order == get_draft_order(Self, league)
       IN  /\ _player_points_cache' = order.self.points
           /\ _player_positions_cache' = order.self.positions
           /\ returned_picks' = Some(order.picks)
    /\ called' = Append(called, "get_draft_order")
    /\ UNCHANGED returned_positions
    /\ UNCHANGED <<rankVars, cliVars, posVars, league, strategy_arg, redrafts,
                   redraft_raised, summary>>

CallsNext == CallGetPlayerPoints \/ CallGetPlayerPositions \/ CallGetDraftOrder

CliIdle ==
    /\ argv = <<>>
    /\ env_ok = TRUE
    /\ pc = "idle"
    /\ command = ""
    /\ rounds = None
    /\ fmt = ""
    /\ strategy_name = ""
    /\ exit_code = None
    /\ stderr = ""
    /\ stdout = [kind |-> "", rows |-> <<>>]
    /\ calls = [get_redraft |-> 0, rank |-> 0]

\* The variables of the other specifications, at rest
RankIdle ==
    /\ players = <<>>
    /\ strategy = TotalPointsRanker
    /\ ranked = <<>>
    /\ before = <<>>
    /\ raised = 0
    /\ calc = None
    /\ rpc = "idle"

ClientIdle ==
    /\ league = League(0, <<>>)
    /\ _player_points_cache = None
    /\ _player_positions_cache = None
    /\ strategy_arg = None
    /\ redrafts = <<>>
    /\ redraft_raised = FALSE
    /\ summary = None

PosIdle ==
    /\ labels = <<>>
    /\ classified = <<>>

CallsIdle ==
    /\ called = <<>>
    /\ returned_positions = None
    /\ returned_picks = None

vars == <<rankVars, clientVars, cliVars, posVars, callVars>>

SpecRankInit == RankInit /\ ClientIdle /\ CliIdle /\ PosIdle /\ CallsIdle
SpecRank == SpecRankInit /\ [][RankNext]_vars

SpecClientInit == ClientInit /\ RankIdle /\ CliIdle /\ PosIdle /\ CallsIdle
SpecClient == SpecClientInit /\ [][ClientNext]_vars

\* A run of the command line starts with a fresh client on some league.
SpecCliInit ==
    /\ CliInit
    /\ RankIdle
    /\ PosIdle
    /\ CallsIdle
    /\ \E n \in 0..MaxPicks : \E prof \in [1..n -> CliProfiles] :
         league = League(n, prof)
    /\ _player_points_cache = None
    /\ _player_positions_cache = None
    /\ strategy_arg = None
    /\ redrafts = <<>>
    /\ redraft_raised = FALSE
    /\ summary = None
SpecCli == SpecCliInit /\ [][CliNext]_vars

SpecPositionInit == PosInit /\ RankIdle /\ ClientIdle /\ CliIdle /\ CallsIdle
SpecPosition == SpecPositionInit /\ [][PosNext]_vars

SpecCallsInit == CallsInit /\ RankIdle /\ CliIdle /\ PosIdle
SpecCalls == SpecCallsInit /\ [][CallsNext]_vars

\* ------------------------------------------------------------------------
\* Properties of the ranking strategies (SpecRank)
\* ------------------------------------------------------------------------
HasRanked == rpc \in {"ranked", "raised"}

\* How often a player_id occurs in a list
Occurrences(ps, id) == Cardinality({i \in 1..Len(ps) : ps[i].player_id = id})

\* 1-based position of the player with this id in a list of distinct players
PositionOf(ps, id) == CHOOSE i \in 1..Len(ps) : ps[i].player_id = id

\* C2: for each of the three strategies and every input list, the empty one
\* included, rank(players) is a permutation of players: every player_id
\* occurs in the output as often as in the input, nothing added, nothing
\* dropped.
C2_RankIsPermutation ==
    HasRanked =>
        /\ Len(ranked) = Len(players)
        /\ \A i \in 1..Len(ranked) : \E j \in 1..Len(players) : ranked[i] = players[j]
        /\ \A j \in 1..Len(players) :
             Occurrences(ranked, players[j].player_id)
                 = Occurrences(players, players[j].player_id)

\* C2 witness: a list of several players, two of them with the same score,
\* has been ranked into another order than it was given in.
C2_Witness ==
    /\ rpc = "ranked"
    /\ Len(players) >= 2
    /\ ranked # players
    /\ \E i, j \in 1..Len(players) :
         i # j /\ Score(strategy, players[i]) = Score(strategy, players[j])

\* C3: rank returns the players in non-increasing order of the strategy's
\* score, and two players of equal score keep the relative order they had in
\* the input.
C3_RankSortedStable ==
    HasRanked =>
        \A i, j \in 1..Len(ranked) :
            i < j =>
                /\ Score(strategy, ranked[i]) >= Score(strategy, ranked[j])
                /\ Score(strategy, ranked[i]) = Score(strategy, ranked[j])
                     => PositionOf(players, ranked[i].player_id)
                            < PositionOf(players, ranked[j].player_id)

\* C3 witness: two players tie on the score and a player given after them is
\* ranked before them.
C3_Witness ==
    /\ rpc = "ranked"
    /\ \E i, j, k \in 1..Len(players) :
         /\ i < j /\ j < k
         /\ Score(strategy, players[i]) = Score(strategy, players[j])
         /\ Score(strategy, players[k]) > Score(strategy, players[i])
         /\ ranked[1] = players[k]

\* C7: calculate_replacement_levels never indexes out of range and returns,
\* per position with starters_needed = num_teams * roster_spots[position]:
\* 0 for an empty partition; the points of the worst player of a partition
\* of at most starters_needed players; otherwise the points of the player at
\* 0-based index starters_needed of the partition sorted by points,
\* descending (at most starters_needed players have more points, at least
\* starters_needed + 1 have as many or more).
PartitionPoints(pos) ==
    {i \in 1..Len(players) : from_espn_position(players[i].position) = pos}

StartersNeeded(pos) ==
    LET spots == IF calc[1].roster_spots = None THEN DEFAULT_ROSTER_SPOTS
                 ELSE calc[1].roster_spots[1]
    IN  calc[1].num_teams * (IF pos \in DOMAIN spots THEN spots[pos] ELSE 0)

ExpectedLevel(pos, v) ==
    LET P == PartitionPoints(pos)
        s == StartersNeeded(pos)
    IN  IF P = {} THEN v = 0
        ELSE IF Cardinality(P) <= s
        THEN /\ \E i \in P : players[i].total_points = v
             /\ \A i \in P : players[i].total_points >= v
        ELSE /\ \E i \in P : players[i].total_points = v
             /\ Cardinality({i \in P : players[i].total_points > v}) <= s
             /\ Cardinality({i \in P : players[i].total_points >= v}) >= s + 1

C7_ReplacementLevels ==
    rpc = "levels" =>
        /\ ~calc[1].result.raises
        /\ \A pos \in Position : ExpectedLevel(pos, calc[1].result.levels[pos])

\* C7 witness: one partition has more players than starters_needed, one has
\* exactly starters_needed players, one is empty.
C7_Witness ==
    /\ rpc = "levels"
    /\ \E a, b, c \in Position :
         /\ Cardinality(PartitionPoints(a)) > StartersNeeded(a)
         /\ StartersNeeded(a) > 0
         /\ Cardinality(PartitionPoints(b)) = StartersNeeded(b)
         /\ StartersNeeded(b) > 0
         /\ PartitionPoints(c) = {}

\* C9: under the VOR ranker with fixed replacement levels, after one player's
\* total_points rose and nothing else changed, every player ranked behind
\* that player before is still ranked behind them.
C9_VorMonotone ==
    (rpc = "raised" /\ strategy.kind = "vor") =>
        \A q \in 1..Len(before) :
            PositionOf(before, raised) < q
                => PositionOf(ranked, raised)
                       < PositionOf(ranked, before[q].player_id)

\* C9 witness: the raised player had players behind them and has overtaken
\* another player.
C9_Witness ==
    /\ rpc = "raised"
    /\ strategy.kind = "vor"
    /\ PositionOf(before, raised) < Len(before)
    /\ PositionOf(ranked, raised) < PositionOf(before, raised)

\* C10: the Position-Adjusted ranker orders by total_points, with exactly the
\* players whose label is "goalie" ignoring case scored total_points *
\* goalie_multiplier; A(500, Forward), B(480, Forward), C(600, Goalie) rank
\* A, B, C under it and C, A, B under the Total-Points ranker.
IsGoalieLabel(label) == label \in {"goalie", "Goalie", "GOALIE"}

\* the adjusted score, times the multiplier's denominator
ExpectedAdjusted(p) ==
    IF IsGoalieLabel(p.position)
    THEN p.total_points * strategy.goalie_multiplier[1]
    ELSE p.total_points * strategy.goalie_multiplier[2]

ScenarioABC ==
    <<Player(1, "Center", 5000), Player(2, "Center", 4800),
      Player(3, "Goalie", 6000)>>

Ids(ps) == [i \in 1..Len(ps) |-> ps[i].player_id]

C10_PositionAdjusted ==
    /\ (HasRanked /\ strategy.kind = "adjusted") =>
          \A i \in 1..Len(ranked) - 1 :
              ExpectedAdjusted(ranked[i]) >= ExpectedAdjusted(ranked[i + 1])
    /\ (rpc = "ranked" /\ players = ScenarioABC) =>
          /\ strategy = PositionAdjustedRanker(DEFAULT_GOALIE_MULTIPLIER)
                => Ids(ranked) = <<1, 2, 3>>
          /\ strategy.kind = "total" => Ids(ranked) = <<3, 1, 2>>

\* C10 witness: the scenario has been ranked by the Position-Adjusted ranker.
C10_Witness ==
    /\ rpc = "ranked"
    /\ players = ScenarioABC
    /\ strategy = PositionAdjustedRanker(DEFAULT_GOALIE_MULTIPLIER)
    /\ Ids(ranked) = <<1, 2, 3>>

\* ------------------------------------------------------------------------
\* Properties of get_redraft and of the summary (SpecClient)
\* ------------------------------------------------------------------------
Comparisons(limit) == redrafts[limit].comparisons

RankedPlayers(limit) == redrafts[limit].ranked_players

\* C1: for any draft and any strategy, get_redraft with a round limit and
\* get_redraft with another or no round limit give the same redraft_pick to
\* every player that is in both outputs.
C1_RedraftPickIndependentOfRounds ==
    \A r1, r2 \in DOMAIN redrafts :
        \A i \in 1..Len(Comparisons(r1)), j \in 1..Len(Comparisons(r2)) :
            Comparisons(r1)[i].player.player_id = Comparisons(r2)[j].player.player_id
                => Comparisons(r1)[i].redraft_pick = Comparisons(r2)[j].redraft_pick

\* C1 witness: rounds=1 and rounds=None have both been asked for, the limit
\* left picks out, and a player picked after round 1 is ranked first, ahead
\* of the players of round 1.
C1_Witness ==
    /\ {None, Some(1)} \subseteq DOMAIN redrafts
    /\ Len(Comparisons(Some(1))) >= 1
    /\ Len(Comparisons(Some(1))) < Len(Comparisons(None))
    /\ \E i \in 1..Len(Comparisons(None)) :
         /\ league.draft[Comparisons(None)[i].actual_pick].round_num > 1
         /\ Comparisons(None)[i].redraft_pick = 1

\* C4: get_redraft never fails on the lookup of a pick's player: every
\* player_id of the draft occurs exactly once in ranked_players, and the
\* redraft_pick of every comparison is the 1-based position of its player in
\* ranked_players.
C4_LookupTotal ==
    /\ ~redraft_raised
    /\ \A r \in DOMAIN redrafts :
         /\ \A i \in 1..Len(league.draft) :
              Occurrences(RankedPlayers(r), league.draft[i].playerId) = 1
         /\ \A k \in 1..Len(Comparisons(r)) :
              LET c == Comparisons(r)[k]
              IN  /\ c.redraft_pick \in 1..Len(RankedPlayers(r))
                  /\ RankedPlayers(r)[c.redraft_pick].player_id = c.player.player_id

\* C4 witness: a draft of several picks has been compared and a player's
\* ideal rank is another number than their pick.
C4_Witness ==
    /\ Len(league.draft) >= 2
    /\ \E r \in DOMAIN redrafts : \E k \in 1..Len(Comparisons(r)) :
         Comparisons(r)[k].redraft_pick # Comparisons(r)[k].actual_pick

\* C5: get_redraft returns exactly one comparison per pick with round_num <=
\* rounds (per pick of the draft when rounds is None), in the order of the
\* picks, with actual_pick the pick's overall_pick and team_name and player
\* those of the pick.
ShownPicks(limit) ==
    {i \in 1..Len(league.draft) :
        limit = None \/ league.draft[i].round_num <= limit[1]}

C5_OneComparisonPerShownPick ==
    \A r \in DOMAIN redrafts :
        LET picks == get_draft_order(NewClient, league).picks
        IN  /\ Len(Comparisons(r)) = Cardinality(ShownPicks(r))
            /\ \A k \in 1..Len(Comparisons(r)) :
                 LET c == Comparisons(r)[k]
                 IN  /\ c.actual_pick \in ShownPicks(r)
                     /\ k < Len(Comparisons(r))
                          => c.actual_pick < Comparisons(r)[k + 1].actual_pick
                     /\ picks[c.actual_pick].overall_pick = c.actual_pick
                     /\ c.team_name = picks[c.actual_pick].team_name
                     /\ c.team_name = TeamName(league.draft[c.actual_pick].team_id)
                     /\ c.player = picks[c.actual_pick].player
                     /\ c.player.player_id = league.draft[c.actual_pick].playerId

\* C5 witness: a round limit kept several picks and left others out.
C5_Witness ==
    \E r \in DOMAIN redrafts :
        /\ r # None
        /\ Len(Comparisons(r)) >= 2
        /\ Len(Comparisons(r)) < Len(league.draft)

\* C6: in the steals/busts report the busts are the comparisons with
\* pick_difference > 0, largest first, the steals those with pick_difference
\* < 0, most negative first; at most 5 of each, equal differences in their
\* original order.
ClaimedSummary(comparisons) ==
    LET diffs(xs) == [i \in 1..Len(xs) |-> pick_difference(xs[i])]
        pos == Filter(comparisons, [i \in 1..Len(comparisons) |->
                                       pick_difference(comparisons[i]) > 0])
        neg == Filter(comparisons, [i \in 1..Len(comparisons) |->
                                       pick_difference(comparisons[i]) < 0])
    IN  [busts |-> Take(SortedReverse(pos, diffs(pos)), SummaryLimit),
         steals |-> Take(Sorted(neg, diffs(neg)), SummaryLimit)]

C6_StealsAndBusts ==
    summary # None =>
        LET claimed == ClaimedSummary(Comparisons(summary[1].rounds))
        IN  /\ summary[1].busts = claimed.busts
            /\ summary[1].steals = claimed.steals

\* ------------------------------------------------------------------------
\* Properties of the command line (SpecCli)
\* ------------------------------------------------------------------------
RecognizedStrategies == {"vor", "total", "adjusted"}

\* The run is the redraft command
IsRedraftRun == IF Len(argv) > 1 THEN TokenText(argv[2]) = "redraft" ELSE TRUE

\* C8: when the redraft command is run with a strategy identifier other than
\* vor, total or adjusted, the run ends in the error outcome (exit code 1),
\* get_redraft and rank are never called, and nothing is printed to stdout.
C8_UnknownStrategyIsError ==
    (IsRedraftRun /\ parse_strategy_arg(argv) \notin RecognizedStrategies) =>
        /\ calls.get_redraft = 0
        /\ calls.rank = 0
        /\ stdout.kind = ""
        /\ _player_points_cache = None
        /\ pc = "done" => exit_code = Some(1)

\* C8 witness: a redraft run with an unknown strategy name has got past the
\* construction of the client and the parsing, and has ended.
C8_Witness ==
    /\ pc = "done"
    /\ command = "redraft"
    /\ strategy_name \notin RecognizedStrategies
    /\ stderr = "Unknown strategy"
    /\ exit_code = Some(1)

\* ------------------------------------------------------------------------
\* Properties of the position classification (SpecPosition)
\* ------------------------------------------------------------------------
\* The labels equal to "goalie" / "defense" when case is ignored
GoalieSpellings == {"goalie", "Goalie", "GOALIE"}

DefenseSpellings == {"defense", "Defense", "DEFENSE", "dEfEnSe"}

\* C11: from_espn_position returns, for every label, exactly one of Forward,
\* Defense, Goalie: Goalie exactly when the label is "goalie" ignoring case,
\* Defense exactly when it is "defense" ignoring case, Forward for every
\* other label, the empty string, "Left Wing" and unknown labels included.
C11_ClassificationTotal ==
    \A i \in 1..Len(classified) :
        /\ classified[i] \in Position
        /\ classified[i] = "G" <=> labels[i] \in GoalieSpellings
        /\ classified[i] = "D" <=> labels[i] \in DefenseSpellings
        /\ classified[i] = "F" <=> labels[i] \notin GoalieSpellings \cup DefenseSpellings

\* C11 witness: a pool with the empty label, an upper-case goalie and a
\* mixed-case defense label has been classified into Forward, Goalie, Defense.
C11_Witness ==
    /\ Len(classified) = Len(labels)
    /\ \E i, j, k \in 1..Len(labels) :
         /\ labels[i] = "" /\ classified[i] = "F"
         /\ labels[j] = "GOALIE" /\ classified[j] = "G"
         /\ labels[k] = "dEfEnSe" /\ classified[k] = "D"

\* ------------------------------------------------------------------------
\* More properties of get_redraft (SpecClient)
\* ------------------------------------------------------------------------
\* C12: when the draft history is empty, get_redraft returns a result with
\* an empty comparison list and an empty ranked_players list, for every
\* strategy and every round limit, and does not end in an error.
C12_EmptyDraft ==
    league.draft = <<>> =>
        /\ ~redraft_raised
        /\ \A r \in DOMAIN redrafts :
             /\ Comparisons(r) = <<>>
             /\ RankedPlayers(r) = <<>>

\* C12 witness: on a league without draft history, whose box scores hold a
\* player with points, get_redraft has returned for every round limit.
C12_Witness ==
    /\ league.draft = <<>>
    /\ _player_points_cache # None
    /\ DOMAIN _player_points_cache[1] # {}
    /\ DOMAIN redrafts = RoundsArgs

\* C15: the i-th comparison (0-based) of a redraft result has actual_pick =
\* i + 1 and i is a valid index of ranked_players, so the ideal player the
\* table and the CSV output print beside it is the player ranked at that
\* pick's own overall draft slot.  (1-based here: the k-th comparison has
\* actual_pick = k, and row k names the player whose ideal rank is k.)
C15_SlotAlignment ==
    \A r \in DOMAIN redrafts :
        LET printed == RedraftRows(redrafts[r])
        IN  /\ ~printed.raises
            /\ Len(printed.rows) = Len(Comparisons(r))
            /\ \A k \in 1..Len(Comparisons(r)) :
                 /\ Comparisons(r)[k].actual_pick = k
                 /\ k \in 1..Len(RankedPlayers(r))
                 /\ printed.rows[k].pick = Comparisons(r)[k].actual_pick
                 /\ printed.rows[k].actual = league.draft[k].playerId
                 /\ printed.rows[k].ideal = RankedPlayers(r)[k].player_id
                 /\ RedraftPosition(RankedPlayers(r))[printed.rows[k].ideal]
                        = Comparisons(r)[k].actual_pick

\* C15 witness: a round limit kept fewer picks than players were ranked, and
\* a row sets a pick beside another player than the one picked there.
C15_Witness ==
    \E r \in DOMAIN redrafts :
        /\ r # None
        /\ Len(Comparisons(r)) >= 2
        /\ Len(Comparisons(r)) < Len(RankedPlayers(r))
        /\ \E k \in 1..Len(Comparisons(r)) :
             RedraftRows(redrafts[r]).rows[k].ideal
                 # RedraftRows(redrafts[r]).rows[k].actual

\* ------------------------------------------------------------------------
\* Properties of the client's position map (SpecCalls)
\* ------------------------------------------------------------------------
\* The roster entries of the league: <<team index, roster index>>
RosterEntries ==
    {e \in (1..Len(league.teams)) \X (1..MaxPicks + 1) :
        e[2] <= Len(league.teams[e[1]].roster)}

RosterEntry(e) == league.teams[e[1]].roster[e[2]]

\* The players with a lineup entry in some box score
BoxScoreIds ==
    {league.box_scores[p][j].playerId :
        <<p, j>> \in {x \in (1..Len(league.box_scores)) \X (1..MaxPicks + 1) :
                        x[2] <= Len(league.box_scores[x[1]])}}

\* C13: whatever order _get_player_points, _get_player_positions and
\* get_draft_order are first called in on a fresh client, the map
\* _get_player_positions returns has an entry for every player on a team
\* roster and for every player of the box scores, and get_draft_order builds
\* a rostered player who is in no box score with their roster position.
C13_PositionsFromRostersAndBoxScores ==
    /\ returned_positions # None =>
          /\ \A e \in RosterEntries :
                /\ RosterEntry(e).playerId \in DOMAIN returned_positions[1]
                /\ RosterEntry(e).playerId \notin BoxScoreIds
                     => returned_positions[1][RosterEntry(e).playerId]
                            = RosterEntry(e).position
          /\ BoxScoreIds \subseteq DOMAIN returned_positions[1]
    /\ returned_picks # None =>
          \A i \in 1..Len(returned_picks[1]) : \A e \in RosterEntries :
              (/\ RosterEntry(e).playerId = returned_picks[1][i].player.player_id
               /\ RosterEntry(e).playerId \notin BoxScoreIds)
                  => returned_picks[1][i].player.position = RosterEntry(e).position

\* ------------------------------------------------------------------------
\* More properties of the command line (SpecCli)
\* ------------------------------------------------------------------------
\* C14: for every recognized strategy and any draft, the redraft command in
\* table format reads only attributes the RedraftResult carries: it prints
\* the report and ends in the success outcome (exit code 0), never in the
\* error outcome.
C14_TableFormatSucceeds ==
    (/\ pc = "done"
     /\ command = "redraft"
     /\ strategy_name \in RecognizedStrategies
     /\ fmt # "csv") =>
        /\ exit_code = Some(0)
        /\ stderr = ""
        /\ stdout.kind = "table"

====
